---- MODULE Spec2Model ----
(***************************************************************************)
(* One OpusEncoder session of src/node-opus.cc: the two lazily created     *)
(* native handles, the two output buffers, and the four script-visible     *)
(* methods encode, decode, setBitrate and getBitrate, plus the destructor. *)
(* The native codec library is the environment: it answers each call with *)
(* any result its contract allows.                                         *)
(***************************************************************************)
EXTENDS Integers, FiniteSets, Sequences, TLC

VARIABLES rate, channels, application,   \* immutable configuration
          encoder, decoder,              \* native handles, NULL when absent
          allocated,                     \* number of native handles created so far
          bitrate,                       \* bitrate held by the native encoder state
          outPcmOk,                      \* outPcm still points at its own storage
          released,                      \* handle -> number of native destroy calls
          phase,                       \* "live", "destroyed" or "crashed"
          wanted,                        \* last bitrate the native encoder stored as given
          last                           \* record of the most recent call

vars == <<rate, channels, application, encoder, decoder, allocated, bitrate,
          outPcmOk, released, phase, wanted, last>>

----------------------------------------------------------------------------
(* Program constants *)

NULL == 0
MAX_FRAME_SIZE == 6 * 960
MAX_PACKET_SIZE == 3 * 1276
DEFAULT_RATE == 48000
OPUS_APPLICATION_AUDIO == 2049

OPUS_BAD_ARG == -1
OPUS_BUFFER_TOO_SMALL == -2
OPUS_INTERNAL_ERROR == -3
OPUS_INVALID_PACKET == -4
OPUS_UNIMPLEMENTED == -5
OPUS_INVALID_STATE == -6
OPUS_ALLOC_FAIL == -7

(* A negative status no case of getDecodeError names. *)
UnmappedCode == -8

HandleIds == 1 .. 2

----------------------------------------------------------------------------
(* Script-side arguments: a value with its type, or nothing at all. *)

Missing == [type |-> "missing", val |-> 0]
Str == [type |-> "string", val |-> 0]
Obj(n) == [type |-> "object", val |-> n]
Int32(n) == [type |-> "int", val |-> n]

(* Byte lengths of the PCM buffers handed to encode. *)
PcmLengths == {200, 1920, 1921, 3842}
PcmArgs == {Missing, Str} \cup {Obj(n) : n \in PcmLengths}

(* maxPacketSize arguments handed to encode. *)
MaxPacketArgs == {Missing, Str, Int32(3276), Int32(4000)}

(* Byte lengths of the packets handed to decode. *)
PacketArgs == {Missing, Str, Obj(0), Obj(40)}

(* bitrate arguments handed to setBitrate. *)
BitrateArgs == {Missing, Str, Int32(0), Int32(100), Int32(64000), Int32(96000)}

(* Configurations a session is constructed with. *)
Rates == {DEFAULT_RATE, 44100}
ChannelCounts == {1, 2}

----------------------------------------------------------------------------
(* Argument macros of common.h *)

REQ_OBJ_ARG(arg) == arg.type = "object"

REQ_INT_ARG(arg) == arg.type = "int"

OPT_INT_ARG_OK(arg) == arg.type \in {"missing", "int"}

OPT_INT_ARG(arg, default) == IF arg.type = "missing" THEN default ELSE arg.val

----------------------------------------------------------------------------
(* The native codec *)

CreateOk(r, c, a) ==
  /\ r \in {8000, 12000, 16000, 24000, 48000}
  /\ c \in {1, 2}
  /\ a \in {2048, 2049, 2051}

(* opus_encoder_create / opus_decoder_create: a fresh handle, or NULL when  *)
(* the configuration is rejected or the allocation fails.                   *)
opus_encoder_create(r, c, a, fresh) ==
  IF CreateOk(r, c, a) THEN {fresh, NULL} ELSE {NULL}

opus_decoder_create(r, c, fresh) ==
  IF CreateOk(r, c, OPUS_APPLICATION_AUDIO) THEN {fresh, NULL} ELSE {NULL}

(* Frame sizes the encoder takes: 2.5, 5, 10, 20, 40 and 60 ms. *)
ValidFrameSize(r, frameSize) ==
  frameSize \in {r \div 400, r \div 200, r \div 100, r \div 50, r \div 25, (3 * r) \div 50}

(* Packet lengths the encoder may produce for a frame. *)
PacketLengths == {1, 3276, 3277, 4000}

(* opus_encode: a packet length within max_data_bytes, or a negative status. *)
opus_encode(r, frameSize, max_data_bytes) ==
  IF ValidFrameSize(r, frameSize) /\ max_data_bytes > 0
  THEN {n \in PacketLengths : n <= max_data_bytes} \cup {OPUS_INTERNAL_ERROR}
  ELSE {OPUS_BAD_ARG}

DecodeErrors ==
  {OPUS_BAD_ARG, OPUS_BUFFER_TOO_SMALL, OPUS_INTERNAL_ERROR, OPUS_INVALID_PACKET,
   OPUS_UNIMPLEMENTED, OPUS_INVALID_STATE, OPUS_ALLOC_FAIL, UnmappedCode}

(* opus_decode: samples per channel (at most frame_size), or a negative     *)
(* status.  An empty packet asks for loss concealment.                      *)
opus_decode(len, frame_size) ==
  {n \in {960, 2880} : n <= frame_size} \cup (IF len = 0 THEN {OPUS_ALLOC_FAIL} ELSE DecodeErrors)

(* Bitrate a new encoder reports before any was set (OPUS_AUTO). *)
AutoBitrate(r, c) == 3000 + r * c

(* OPUS_SET_BITRATE: a non-positive request is refused, any other is kept   *)
(* within 500 .. 300000 per channel.                                        *)
CtlSetBitrate(cur, value, c) ==
  IF value <= 0 THEN cur
  ELSE IF value <= 500 THEN 500
  ELSE IF value > 300000 * c THEN 300000 * c
  ELSE value

(* The requests the encoder stores exactly as given. *)
StoredAsGiven(value, c) == value >= 500 /\ value <= 300000 * c

(* Values a read through a dead handle or of an unset local may yield. *)
Garbage == {OPUS_INTERNAL_ERROR, 7}

----------------------------------------------------------------------------
(* The session *)

getDecodeError(decodedSamples) ==
  CASE decodedSamples = OPUS_BAD_ARG -> "One or more invalid/out of range arguments"
    [] decodedSamples = OPUS_BUFFER_TOO_SMALL -> "The mode struct passed is invalid"
    [] decodedSamples = OPUS_INTERNAL_ERROR -> "An internal error was detected"
    [] decodedSamples = OPUS_INVALID_PACKET -> "The compressed data passed is corrupted"
    [] decodedSamples = OPUS_UNIMPLEMENTED -> "Invalid/unsupported request number."
    [] decodedSamples = OPUS_INVALID_STATE ->
         "An encoder or decoder structure is invalid or already freed."
    [] decodedSamples = OPUS_ALLOC_FAIL -> "Memory allocation has failed"
    [] OTHER -> "Unknown OPUS error"

(* EnsureEncoder / EnsureDecoder: keep the handle there is, else take what  *)
(* the native constructor gave (NULL on failure).  The error code they      *)
(* return is dropped by every caller.                                       *)
EnsureEncoderAnew(enc, created) == created

EnsureEncoder(enc, created) == IF enc # NULL THEN enc ELSE created

EnsureDecoderAnew(dec, created) == created

EnsureDecoder(dec, created) == IF dec # NULL THEN dec ELSE created

(* int frameSize = Buffer::Length( pcmBuffer ) / 2 / self->channels *)
FrameSizeOf(length, c) == (length \div 2) \div c

(* The length encode hands to the result buffer. *)
EncodeResultLengthCap(compressedLength, maxPacketSize) == maxPacketSize

EncodeResultLength(compressedLength, maxPacketSize) == compressedLength

(* int decodedLength = decodedSamples * 2 * self->channels *)
DecodedLength(decodedSamples, c) == decodedSamples * 2 * c

(* The handles the destructor hands to opus_encoder_destroy and            *)
(* opus_decoder_destroy.                                                    *)
DestroyedHandlesEncoderOnly(enc, dec) == {h \in {enc} : h # NULL}

DestroyedHandles(enc, dec) == {h \in {enc, dec} : h # NULL}

(* What is known of a call when it starts. *)
Call(op) ==
  [op |-> op, arg0 |-> Missing, arg1 |-> Missing,
   preEncoder |-> encoder, preDecoder |-> decoder,
   createFailed |-> FALSE, nativeCalled |-> FALSE, nullHandle |-> FALSE,
   nativeRet |-> 0, frameSize |-> 0, bound |-> 0,
   outcome |-> "none", value |-> 0, message |-> ""]

Init ==
  /\ rate \in Rates
  /\ channels \in ChannelCounts
  /\ application = OPUS_APPLICATION_AUDIO
  /\ encoder = NULL
  /\ decoder = NULL
  /\ allocated = 0
  /\ bitrate = 0
  /\ outPcmOk = TRUE
  /\ released = [h \in HandleIds |-> 0]
  /\ phase = "live"
  /\ wanted = 0
  /\ last = Call("none")

Encode ==
  /\ phase = "live"
  /\ \E pcmBuffer \in PcmArgs, maxArg \in MaxPacketArgs,
        created \in opus_encoder_create(rate, channels, application, allocated + 1) :
       LET enc == EnsureEncoder(encoder, created)
           base == [Call("encode") EXCEPT !.arg0 = pcmBuffer, !.arg1 = maxArg,
                                          !.createFailed = (enc = NULL)]
       IN /\ encoder' = enc
          /\ allocated' = IF enc # encoder THEN allocated + 1 ELSE allocated
          /\ bitrate' = IF enc # encoder THEN AutoBitrate(rate, channels) ELSE bitrate
          /\ IF ~REQ_OBJ_ARG(pcmBuffer) \/ ~OPT_INT_ARG_OK(maxArg)
             THEN /\ last' = [base EXCEPT !.outcome = "ArgumentError"]
                  /\ UNCHANGED <<phase, outPcmOk>>
             ELSE LET maxPacketSize == OPT_INT_ARG(maxArg, MAX_PACKET_SIZE)
                      frameSize == FrameSizeOf(pcmBuffer.val, channels)
                      called == [base EXCEPT !.nativeCalled = TRUE,
                                             !.nullHandle = (enc = NULL),
                                             !.frameSize = frameSize,
                                             !.bound = maxPacketSize]
                  IN \E compressedLength \in
                          (IF enc = NULL THEN Garbage
                           ELSE opus_encode(rate, frameSize, maxPacketSize)),
                        crash \in BOOLEAN :
                       /\ crash => (enc = NULL \/ compressedLength \notin 0 .. MAX_PACKET_SIZE)
                       /\ outPcmOk' = (outPcmOk /\ compressedLength <= MAX_PACKET_SIZE)
                       /\ phase' = IF crash THEN "crashed" ELSE "live"
                       /\ last' = IF crash
                                  THEN [called EXCEPT !.nativeRet = compressedLength,
                                                      !.outcome = "crash"]
                                  ELSE [called EXCEPT
                                          !.nativeRet = compressedLength,
                                          !.outcome = "buffer",
                                          !.value = EncodeResultLength(compressedLength,
                                                                       maxPacketSize)]
  /\ UNCHANGED <<rate, channels, application, decoder, released, wanted>>

Decode ==
  /\ phase = "live"
  /\ \E compressedBuffer \in PacketArgs :
       IF ~REQ_OBJ_ARG(compressedBuffer)
       THEN /\ last' = [Call("decode") EXCEPT !.arg0 = compressedBuffer,
                                              !.outcome = "ArgumentError"]
            /\ UNCHANGED <<decoder, allocated, phase>>
       ELSE \E created \in opus_decoder_create(rate, channels, allocated + 1) :
              LET dec == EnsureDecoder(decoder, created)
                  called == [Call("decode") EXCEPT !.arg0 = compressedBuffer,
                                                   !.createFailed = (dec = NULL),
                                                   !.nativeCalled = TRUE,
                                                   !.nullHandle = (dec = NULL)]
              IN /\ decoder' = dec
                 /\ allocated' = IF dec # decoder THEN allocated + 1 ELSE allocated
                 /\ \E decodedSamples \in
                         (IF dec = NULL THEN Garbage
                          ELSE opus_decode(compressedBuffer.val, MAX_FRAME_SIZE)),
                       crash \in BOOLEAN :
                      /\ crash => (dec = NULL \/ ~outPcmOk)
                      /\ phase' = IF crash THEN "crashed" ELSE "live"
                      /\ last' =
                           IF crash
                           THEN [called EXCEPT !.nativeRet = decodedSamples,
                                               !.outcome = "crash"]
                           ELSE IF decodedSamples < 0
                           THEN [called EXCEPT !.nativeRet = decodedSamples,
                                               !.outcome = "TypeError",
                                               !.message = getDecodeError(decodedSamples)]
                           ELSE [called EXCEPT !.nativeRet = decodedSamples,
                                               !.outcome = "buffer",
                                               !.value = DecodedLength(decodedSamples,
                                                                       channels)]
  /\ UNCHANGED <<rate, channels, application, encoder, bitrate, outPcmOk, released, wanted>>

SetBitrate ==
  /\ phase = "live"
  /\ \E arg \in BitrateArgs :
       IF ~REQ_INT_ARG(arg)
       THEN /\ last' = [Call("setBitrate") EXCEPT !.arg0 = arg, !.outcome = "ArgumentError"]
            /\ UNCHANGED <<encoder, allocated, bitrate, wanted, phase>>
       ELSE \E created \in opus_encoder_create(rate, channels, application, allocated + 1),
               crash \in BOOLEAN :
              LET enc == EnsureEncoder(encoder, created)
                  cur == IF enc # encoder THEN AutoBitrate(rate, channels) ELSE bitrate
                  called == [Call("setBitrate") EXCEPT !.arg0 = arg,
                                                       !.createFailed = (enc = NULL),
                                                       !.nativeCalled = TRUE,
                                                       !.nullHandle = (enc = NULL)]
              IN /\ crash => enc = NULL
                 /\ encoder' = enc
                 /\ allocated' = IF enc # encoder THEN allocated + 1 ELSE allocated
                 /\ bitrate' = IF enc = NULL THEN bitrate
                               ELSE CtlSetBitrate(cur, arg.val, channels)
                 /\ wanted' = IF enc = NULL THEN wanted
                              ELSE IF StoredAsGiven(arg.val, channels) THEN arg.val
                              ELSE IF arg.val <= 0 THEN wanted
                              ELSE 0
                 /\ phase' = IF crash THEN "crashed" ELSE "live"
                 /\ last' = [called EXCEPT !.outcome = IF crash THEN "crash" ELSE "undefined"]
  /\ UNCHANGED <<rate, channels, application, decoder, outPcmOk, released>>

GetBitrate ==
  /\ phase = "live"
  /\ \E created \in opus_encoder_create(rate, channels, application, allocated + 1),
        crash \in BOOLEAN, unset \in Garbage :
       LET enc == EnsureEncoder(encoder, created)
           cur == IF enc # encoder THEN AutoBitrate(rate, channels) ELSE bitrate
           called == [Call("getBitrate") EXCEPT !.createFailed = (enc = NULL),
                                                !.nativeCalled = TRUE,
                                                !.nullHandle = (enc = NULL)]
       IN /\ crash => enc = NULL
          /\ encoder' = enc
          /\ allocated' = IF enc # encoder THEN allocated + 1 ELSE allocated
          /\ bitrate' = cur
          /\ phase' = IF crash THEN "crashed" ELSE "live"
          /\ last' = IF crash THEN [called EXCEPT !.outcome = "crash"]
                     ELSE [called EXCEPT !.outcome = "integer",
                                         !.value = IF enc = NULL THEN unset ELSE cur]
  /\ UNCHANGED <<rate, channels, application, decoder, outPcmOk, released, wanted>>

(* ~OpusEncoder: both handles are released and cleared before outPcm, which *)
(* came from new[], is given to a plain delete.                             *)
Destroy ==
  /\ phase = "live"
  /\ \E crash \in BOOLEAN :
       /\ released' = [h \in HandleIds |->
                         released[h] + (IF h \in DestroyedHandles(encoder, decoder)
                                        THEN 1 ELSE 0)]
       /\ encoder' = NULL
       /\ decoder' = NULL
       /\ phase' = IF crash THEN "crashed" ELSE "destroyed"
       /\ last' = [Call("destroy") EXCEPT !.outcome = IF crash THEN "crash" ELSE "undefined"]
  /\ UNCHANGED <<rate, channels, application, allocated, bitrate, outPcmOk, wanted>>

Next == Encode \/ Decode \/ SetBitrate \/ GetBitrate \/ Destroy

Spec == Init /\ [][Next]_vars

----------------------------------------------------------------------------
(* Properties *)

(* The call just made reached the native encode, decode or control          *)
(* primitive with a handle that exists.                                     *)
NativeAnswered == last.nativeCalled /\ ~last.nullHandle

(* C1: when the lazy creation of the needed handle fails, the operation     *)
(* fails with CodecInitError and the native primitive is never invoked      *)
(* with an absent handle.                                                   *)
C1_InitFailureReported ==
  last.createFailed => (last.outcome = "CodecInitError" /\ ~last.nullHandle)

(* C2: whenever the native encode primitive returns a negative status,      *)
(* encode fails with EncodeError carrying that code and returns no byte     *)
(* sequence.                                                                *)
C2_EncodeErrorReported ==
  (last.op = "encode" /\ NativeAnswered /\ last.nativeRet < 0)
    => (last.outcome = "EncodeError" /\ last.value = last.nativeRet)

(* The condition each native status stands for. *)
ConditionOf(code) ==
  CASE code = OPUS_BAD_ARG -> "bad argument"
    [] code = OPUS_BUFFER_TOO_SMALL -> "buffer too small"
    [] code = OPUS_INTERNAL_ERROR -> "internal error"
    [] code = OPUS_INVALID_PACKET -> "corrupted packet"
    [] code = OPUS_UNIMPLEMENTED -> "unsupported request"
    [] code = OPUS_INVALID_STATE -> "invalid state"
    [] code = OPUS_ALLOC_FAIL -> "allocation failure"
    [] OTHER -> "unknown"

(* The condition a message text speaks of. *)
MessageSubject(msg) ==
  CASE msg = "One or more invalid/out of range arguments" -> "bad argument"
    [] msg = "The mode struct passed is invalid" -> "invalid mode struct"
    [] msg = "An internal error was detected" -> "internal error"
    [] msg = "The compressed data passed is corrupted" -> "corrupted packet"
    [] msg = "Invalid/unsupported request number." -> "unsupported request"
    [] msg = "An encoder or decoder structure is invalid or already freed." -> "invalid state"
    [] msg = "Memory allocation has failed" -> "allocation failure"
    [] msg = "Unknown OPUS error" -> "unknown"
    [] OTHER -> "none"

(* C3: whenever the native decode primitive returns a negative status,      *)
(* decode fails with DecodeError, returns no sample data, and the message   *)
(* is the table entry for that status, each of the seven named statuses     *)
(* having a message that describes its own condition and every other        *)
(* negative status the generic "Unknown" message.                           *)
C3_DecodeErrorMessage ==
  (last.op = "decode" /\ NativeAnswered /\ last.nativeRet < 0 /\ last.outcome # "crash")
    => /\ last.outcome = "TypeError"
       /\ last.value = 0
       /\ MessageSubject(last.message) = ConditionOf(last.nativeRet)

(* C4: a missing or wrongly typed required argument is reported before any  *)
(* call into the native layer, lazy creation included, so that the handles  *)
(* are what they were before the call.                                      *)
C4_ArgumentErrorFirst ==
  last.outcome = "ArgumentError"
    => (~last.nativeCalled /\ encoder = last.preEncoder /\ decoder = last.preDecoder)

(* C5: a PCM input whose byte length is not divisible by channels*2 gets a  *)
(* native-reported error; the encoder is never given a frame length that    *)
(* drops the remainder bytes.                                               *)
C5_RemainderReported ==
  (last.op = "encode" /\ NativeAnswered /\ last.arg0.val % (channels * 2) # 0)
    => (last.nativeRet < 0 /\ last.frameSize * channels * 2 = last.arg0.val)

(* C6: after setBitrate(b) with a bitrate b the native layer takes as       *)
(* given, getBitrate returns b, whether or not the encoder existed before   *)
(* setBitrate and whatever encode or decode calls were made.                *)
C6_SetThenGetBitrate ==
  (last.op = "getBitrate" /\ last.outcome = "integer" /\ wanted # 0)
    => last.value = wanted

C6_Witness ==
  /\ last.op = "getBitrate"
  /\ last.outcome = "integer"
  /\ wanted = 64000
  /\ last.value = 64000
  /\ decoder # NULL

(* An encode call on well-formed arguments whose frame the native encoder   *)
(* took and turned into a packet, and which returned a byte sequence.       *)
EncodedValidPcm ==
  /\ last.op = "encode"
  /\ NativeAnswered
  /\ last.arg0.val % (channels * 2) = 0
  /\ last.nativeRet > 0
  /\ last.outcome = "buffer"

(* C7 as stated: the returned sequence is non-empty, of exactly the length  *)
(* the native encoder produced, and no longer than maxPacketSize, which is  *)
(* 3276 when the caller gives none.                                         *)
C7_AsStated ==
  EncodedValidPcm
    => /\ last.value = last.nativeRet
       /\ last.value >= 1
       /\ last.value <= OPT_INT_ARG(last.arg1, 3276)

(* C7: for valid PCM input whose length is a multiple of channels*2, the    *)
(* returned sequence is non-empty, of exactly the length the native encoder *)
(* produced, and no longer than maxPacketSize, which is 3*1276 = 3828 when  *)
(* the caller gives none.                                                   *)
C7_EncodedLength ==
  EncodedValidPcm
    => /\ last.value = last.nativeRet
       /\ last.value >= 1
       /\ last.value <= OPT_INT_ARG(last.arg1, MAX_PACKET_SIZE)

C7_Witness ==
  /\ EncodedValidPcm
  /\ last.arg1 = Missing
  /\ last.value = 3277

(* C8: before destruction the encoder handle appears only through encode,   *)
(* setBitrate or getBitrate and the decoder handle only through decode, and *)
(* a handle once present stays the same handle, also across failed calls.   *)
C8_HandlesStable ==
  [][last'.op # "destroy"
       => /\ encoder # NULL => encoder' = encoder
          /\ decoder # NULL => decoder' = decoder
          /\ (encoder = NULL /\ encoder' # NULL)
               => last'.op \in {"encode", "setBitrate", "getBitrate"}
          /\ (decoder = NULL /\ decoder' # NULL) => last'.op = "decode"]_vars

C8_Witness ==
  /\ last.op = "decode"
  /\ last.outcome = "TypeError"
  /\ last.preDecoder # NULL
  /\ decoder = last.preDecoder
  /\ encoder # NULL

(* C9: when the session is destroyed, every native handle that was created  *)
(* has been released exactly once, no other handle has been released, and   *)
(* both handles are absent.                                                 *)
C9_ReleasedOnce ==
  last.op = "destroy"
    => /\ encoder = NULL
       /\ decoder = NULL
       /\ \A h \in HandleIds : released[h] = IF h <= allocated THEN 1 ELSE 0

C9_Witness ==
  /\ last.op = "destroy"
  /\ phase = "destroyed"
  /\ allocated = 2
  /\ last.preEncoder # NULL
  /\ last.preDecoder # NULL

(* C10: whatever maxPacketSize the caller passes, the output bound handed   *)
(* to the native encoder never exceeds the capacity of outOpus.             *)
C10_BoundWithinBuffer ==
  (last.op = "encode" /\ last.nativeCalled) => last.bound <= MAX_PACKET_SIZE

====
